---- MODULE Spec2Model ----
(***************************************************************************)
(* Model of app/parse.py: a Selenium scraper that walks six category pages *)
(* of a demo shop with one browser session, clicks "More" until the button *)
(* is gone, extracts the product cards and writes one CSV per category.    *)
(*                                                                         *)
(* Texts that the program parses (price, review count) are sequences of    *)
(* one-character strings; texts it only copies (title, description) and    *)
(* the cells it writes are strings.                                        *)
(***************************************************************************)
EXTENDS Integers, Sequences, FiniteSets, TLC

VARIABLES
    pc,           \* position of the single thread of control
    cat,          \* index (1..6) of the entry of `pages` being processed
    session,      \* the browser session: "none", "open", "closed"
    quits,        \* number of driver.quit() calls made
    lateOps,      \* TRUE once a browser operation ran on a session not open
    exc,          \* the exception propagating out of get_all_products, or "none"
    failedAt,     \* the position at which that exception was raised
    failedCat,    \* the category being processed when it was raised (0: none)
    site,         \* what the web site serves during this run (environment)
    more_button,  \* load_all_products_from_category's local: id of the element found, 0 if unbound
    clicked,      \* id of the element the injected click script last received
    activations,  \* clicks of the "More" button made for the current category
    shown,        \* lookups of the current category that found the button displayed
    lastCheck,    \* outcome of the latest lookup: "none", "shown", "hidden", "absent"
    pagination,   \* "IDLE", "PAGINATING" or "DONE" for the current category
    dom,          \* the cards find_elements returned for the current category
    parsed,       \* parsed[c]: number of runs of parse_products_on_page for category c
    products,     \* get_all_products's local `products`
    files         \* the working directory: files[c] is the c-th CSV, or NoFile

vars == <<pc, cat, session, quits, lateOps, exc, failedAt, failedCat, site, more_button,
          clicked, activations, shown, lastCheck, pagination, dom, parsed,
          products, files>>

----------------------------------------------------------------------------
(* Bounds of the model *)

\* a category page shows a displayed "More" button on at most MaxClicks lookups
MaxClicks == 2
\* cards on a page, in the runs that enumerate every page
MaxCards == 2
\* length of the price texts that are enumerated exhaustively
MaxPriceLen == 3

(* Program constants *)

\* the six entries of `pages`, in dict order
NumCategories == 6

Filenames == <<"home.csv", "computers.csv", "laptops.csv", "tablets.csv",
               "phones.csv", "touch.csv">>

Categories == 1..NumCategories

\* Product.__annotations__.keys()
Header == <<"title", "description", "price", "rating", "num_of_reviews">>

\* a path of the working directory that names no file
NoFile == [exists |-> FALSE, rows |-> <<>>]

----------------------------------------------------------------------------
(* Text helpers *)

Digits == {"0", "1", "2", "3", "4", "5", "6", "7", "8", "9"}

DigitVal(c) ==
    CASE c = "0" -> 0 [] c = "1" -> 1 [] c = "2" -> 2 [] c = "3" -> 3
      [] c = "4" -> 4 [] c = "5" -> 5 [] c = "6" -> 6 [] c = "7" -> 7
      [] c = "8" -> 8 [] c = "9" -> 9

AllDigits(s) == \A i \in 1..Len(s) : s[i] \in Digits

RECURSIVE NatOf(_)
NatOf(s) ==
    IF s = <<>> THEN 0
    ELSE NatOf(SubSeq(s, 1, Len(s) - 1)) * 10 + DigitVal(s[Len(s)])

\* a decimal value m / 10^e, without trailing zeros in the fraction
RECURSIVE Norm(_, _)
Norm(m, e) == IF e > 0 /\ m % 10 = 0 THEN Norm(m \div 10, e - 1) ELSE <<m, e>>

RECURSIVE Pow10(_)
Pow10(e) == IF e = 0 THEN 1 ELSE 10 * Pow10(e - 1)

\* SeqsUpTo(S, n): the sequences over S of length at most n
SeqsUpTo(S, n) == UNION {[1..k -> S] : k \in 0..n}

----------------------------------------------------------------------------
(* The conversions of parse_products_on_page *)

\* price_text.replace("$", ""): every "$" is removed, wherever it stands
StripDollar(s) == SelectSeq(s, LAMBDA c : c # "$")

\* float(text) on texts over digits, ".", "," and letters (no sign, exponent,
\* underscore or blank occurs in the texts of the model): digits with at most
\* one point and at least one digit; anything else raises ValueError.
ParseFloat(s) ==
    LET dots == {i \in 1..Len(s) : s[i] = "."} IN
    IF dots = {} THEN
        IF Len(s) > 0 /\ AllDigits(s)
        THEN [ok |-> TRUE, val |-> Norm(NatOf(s), 0)]
        ELSE [ok |-> FALSE, val |-> <<0, 0>>]
    ELSE IF Cardinality(dots) > 1 THEN [ok |-> FALSE, val |-> <<0, 0>>]
    ELSE
        LET i  == CHOOSE j \in dots : TRUE
            ip == SubSeq(s, 1, i - 1)
            fp == SubSeq(s, i + 1, Len(s))
        IN  IF AllDigits(ip) /\ AllDigits(fp) /\ Len(ip) + Len(fp) > 0
            THEN [ok |-> TRUE, val |-> Norm(NatOf(ip \o fp), Len(fp))]
            ELSE [ok |-> FALSE, val |-> <<0, 0>>]

\* reviews_text.split(): the maximal runs of non-blank characters
RECURSIVE Split(_)
Split(s) ==
    IF s = <<>> THEN <<>>
    ELSE IF s[1] = " " THEN Split(Tail(s))
    ELSE LET blanks == {i \in 1..Len(s) : s[i] = " "}
             stop   == IF blanks = {} THEN Len(s) + 1
                       ELSE CHOOSE i \in blanks : \A j \in blanks : i <= j
         IN  <<SubSeq(s, 1, stop - 1)>> \o Split(SubSeq(s, stop, Len(s)))

\* int(token) on tokens over digits and letters: a non-empty run of digits
ParseInt(t) ==
    IF Len(t) > 0 /\ AllDigits(t) THEN [ok |-> TRUE, val |-> NatOf(t)]
    ELSE [ok |-> FALSE, val |-> 0]

\* One iteration of the loop over cards: the Product, or the exception raised
\* by the first step that fails, in the order of the statements.
ExtractCard(card) ==
    LET raise(e) == [exc |-> e, product |-> <<>>] IN
    IF "title" \notin card.has THEN raise("NoSuchElementException")
    ELSE IF "description" \notin card.has THEN raise("NoSuchElementException")
    ELSE IF "price" \notin card.has THEN raise("NoSuchElementException")
    ELSE LET price == ParseFloat(StripDollar(card.price)) IN
    IF ~price.ok THEN raise("ValueError")
    ELSE IF "review-count" \notin card.has THEN raise("NoSuchElementException")
    ELSE LET tokens == Split(card.reviews) IN
    IF tokens = <<>> THEN raise("IndexError")
    ELSE LET n == ParseInt(tokens[1]) IN
    IF ~n.ok THEN raise("ValueError")
    ELSE [exc |-> "none",
          product |-> <<[title |-> card.title,
                         description |-> card.description,
                         price |-> price.val,
                         rating |-> card.stars,
                         num_of_reviews |-> n.val]>>]

\* parse_products_on_page on the cards found: every Product in card order, or
\* the first exception, which leaves the function without a return value.
RECURSIVE ParseSkippingBadCards(_)
ParseSkippingBadCards(cards) ==
    IF cards = <<>> THEN [exc |-> "none", products |-> <<>>]
    ELSE LET r == ExtractCard(Head(cards))
             rest == ParseSkippingBadCards(Tail(cards))
         IN  [exc |-> "none", products |-> r.product \o rest.products]

RECURSIVE ParseProducts(_)
ParseProducts(cards) ==
    IF cards = <<>> THEN [exc |-> "none", products |-> <<>>]
    ELSE LET r == ExtractCard(Head(cards)) IN
         IF r.exc # "none" THEN [exc |-> r.exc, products |-> <<>>]
         ELSE LET rest == ParseProducts(Tail(cards)) IN
              IF rest.exc # "none" THEN rest
              ELSE [exc |-> "none", products |-> r.product \o rest.products]

----------------------------------------------------------------------------
(* The conversions of save_to_csv *)

\* str(int)
IntCell(n) == ToString(n)

\* the e digits of the fraction of m / 10^e
RECURSIVE FracText(_, _)
FracText(m, e) ==
    IF e = 0 THEN "" ELSE FracText(m \div 10, e - 1) \o ToString(m % 10)

\* repr(float) of a short decimal: integer part, point, fraction ("0" if none)
FloatCell(v) ==
    LET m == v[1]
        e == v[2]
    IN  ToString(m \div Pow10(e)) \o "."
        \o (IF e = 0 THEN "0" ELSE FracText(m % Pow10(e), e))

\* astuple(product), each field as csv.writer writes it
Row(p) == <<p.title, p.description, FloatCell(p.price), IntCell(p.rating),
            IntCell(p.num_of_reviews)>>

\* [astuple(product) for product in products]
RowsReversed(ps) == [i \in 1..Len(ps) |-> Row(ps[Len(ps) + 1 - i])]
Rows(ps) == [i \in 1..Len(ps) |-> Row(ps[i])]

----------------------------------------------------------------------------
(* The environment: what the web site serves *)

Parts == {"title", "description", "price", "review-count"}

Reviews10 == <<"1", "0", " ", "r", "e", "v", "i", "e", "w", "s">>
Reviews2  == <<"2", " ", "r", "e", "v", "i", "e", "w", "s">>
Reviews0  == <<"0", " ", "r", "e", "v", "i", "e", "w", "s">>

cardA == [has |-> Parts, title |-> "A", description |-> "about A",
          price |-> <<"$", "1", "0", ".", "0", "0">>, stars |-> 4,
          reviews |-> Reviews10]
cardB == [has |-> Parts, title |-> "B", description |-> "about B",
          price |-> <<"$", "2", "0", ".", "5", "0">>, stars |-> 3,
          reviews |-> Reviews2]
cardC == [has |-> Parts, title |-> "C", description |-> "",
          price |-> <<"$", "5", ".", "0", "0">>, stars |-> 5,
          reviews |-> Reviews0]

GoodCards == {cardA, cardB, cardC}

\* cards on which one step of the extraction fails
BadCards ==
    {[cardA EXCEPT !.has = Parts \ {part}] : part \in Parts}
    \cup {[cardB EXCEPT !.price = <<"$", "x">>],
          [cardB EXCEPT !.price = <<"$", "1", ",", "2", "3", "4", ".", "5", "0">>],
          [cardC EXCEPT !.reviews = <<"r", " ", "3">>],
          [cardC EXCEPT !.reviews = <<>>]}

CardPool == GoodCards \cup BadCards

PriceChars == {"$", "0", "1", ",", ".", "x"}

SamplePrices ==
    {<<"$", "1", ",", "2", "3", "4", ".", "5", "0">>,
     <<"$", "1", "2", "3", "4", ".", "5", "0">>,
     <<"$", "1", ",", "0", "0", "0">>,
     <<"$", "1", "0", ".", "0", "0">>,
     <<"$", "2", "0", ".", "5", "0">>,
     <<"$", "5", ".", "0", "0">>,
     <<"$", "1", "2", "a">>,
     <<"$", "f", "r", "e", "e">>}

PriceTexts == SamplePrices \cup SeqsUpTo(PriceChars, MaxPriceLen)

ScenarioPages ==
    {<<>>,
     <<cardA, cardB, cardC>>,
     <<cardA, [cardB EXCEPT !.price = <<"$", "x">>], cardC>>,
     <<cardB, [cardC EXCEPT !.reviews = <<>>]>>}

\* The runs of the model: every category serves a page of the scenario set;
\* or one category serves every page of at most MaxCards cards; or one
\* category serves one card with any of the price texts. In the last two the
\* other categories are empty.
Sites ==
    {[mode |-> "scenario", rich |-> 0]}
    \cup {[mode |-> m, rich |-> k] : m \in {"cards", "prices"}, k \in Categories}

PagesOf(s, c) ==
    IF s.mode = "scenario" THEN ScenarioPages
    ELSE IF c # s.rich THEN {<<>>}
    ELSE IF s.mode = "cards" THEN SeqsUpTo(CardPool, MaxCards)
    ELSE {<<[cardA EXCEPT !.price = t]>> : t \in PriceTexts}

----------------------------------------------------------------------------
(* Exception handling *)

\* accept_cookies: except TimeoutException
AcceptCookiesCatches(e) == e = "TimeoutException"

\* load_all_products_from_category: except NoSuchElementException
PaginationCatchesTimeoutToo(e) ==
    e \in {"NoSuchElementException", "TimeoutException"}
PaginationCatches(e) == e = "NoSuchElementException"

\* get_all_products: an exception raised inside the try runs the finally
\* clause and then leaves the function
UnwindWithoutFinally(e) ==
    exc' = e /\ failedAt' = pc /\ failedCat' = cat /\ pc' = "end"
UnwindAndContinue(e) ==
    exc' = e /\ failedAt' = pc /\ failedCat' = cat /\ pc' = "for"
Unwind(e) ==
    exc' = e /\ failedAt' = pc /\ failedCat' = cat /\ pc' = "quit"

\* a command sent to the browser
BrowserOp == lateOps' = (lateOps \/ session # "open")

\* the break statements of the "More" loop
Break(check) ==
    /\ pagination' = "DONE"
    /\ lastCheck' = check
    /\ pc' = "parse"
    /\ UNCHANGED <<exc, failedAt, failedCat>>

\* an exception raised inside the try of the "More" loop
LoopRaise(e) ==
    IF PaginationCatches(e) THEN Break("absent")
    ELSE Unwind(e) /\ UNCHANGED <<pagination, lastCheck>>

----------------------------------------------------------------------------
(* The program *)

Init ==
    /\ pc = "setup"
    /\ cat = 0
    /\ session = "none"
    /\ quits = 0
    /\ lateOps = FALSE
    /\ exc = "none"
    /\ failedAt = "none"
    /\ failedCat = 0
    /\ site \in Sites
    /\ more_button = 0
    /\ clicked = 0
    /\ activations = 0
    /\ shown = 0
    /\ lastCheck = "none"
    /\ pagination = "IDLE"
    /\ dom = <<>>
    /\ parsed = [c \in Categories |-> 0]
    /\ products = <<>>
    /\ files = [c \in Categories |-> NoFile]

\* driver = setup_driver(): outside the try. It returns the driver of a new
\* session, or the launch fails and there is no session
SetupDriver ==
    /\ pc = "setup"
    /\ \E ok \in BOOLEAN :
         IF ok THEN session' = "open" /\ pc' = "for" /\ UNCHANGED <<exc, failedAt, failedCat>>
         ELSE /\ exc' = "WebDriverException" /\ failedAt' = "setup" /\ pc' = "end"
              /\ UNCHANGED <<session, failedCat>>
    /\ UNCHANGED <<cat, quits, lateOps, site, more_button, clicked, activations,
                   shown, lastCheck, pagination, dom, parsed, products, files>>

\* for filename, url in pages.items(): the next entry, and the call of
\* load_all_products_from_category with fresh locals
ForNext ==
    /\ pc = "for"
    /\ IF cat < NumCategories
       THEN /\ cat' = cat + 1
            /\ pc' = "get"
            /\ more_button' = 0 /\ clicked' = 0 /\ activations' = 0 /\ shown' = 0
            /\ lastCheck' = "none" /\ pagination' = "IDLE" /\ dom' = <<>>
       ELSE /\ pc' = "quit"
            /\ UNCHANGED <<cat, more_button, clicked, activations, shown,
                           lastCheck, pagination, dom>>
    /\ UNCHANGED <<session, quits, lateOps, exc, failedAt, failedCat, site, parsed,
                   products, files>>

\* driver.get(url)
Get ==
    /\ pc = "get"
    /\ BrowserOp
    /\ \E ok \in BOOLEAN :
         IF ok THEN pc' = "consent_wait" /\ UNCHANGED <<exc, failedAt, failedCat>>
         ELSE Unwind("WebDriverException")
    /\ UNCHANGED <<cat, session, quits, site, more_button, clicked, activations,
                   shown, lastCheck, pagination, dom, parsed, products, files>>

\* accept_cookies: WebDriverWait(driver, 3).until(element_to_be_clickable(...))
ConsentWait ==
    /\ pc = "consent_wait"
    /\ BrowserOp
    /\ \E o \in {"clickable", "TimeoutException", "WebDriverException"} :
         IF o = "clickable"
         THEN pc' = "consent_click" /\ UNCHANGED <<exc, failedAt, failedCat, pagination>>
         ELSE IF AcceptCookiesCatches(o)
         THEN pc' = "find_more" /\ pagination' = "PAGINATING"
              /\ UNCHANGED <<exc, failedAt, failedCat>>
         ELSE Unwind(o) /\ UNCHANGED pagination
    /\ UNCHANGED <<cat, session, quits, site, more_button, clicked, activations,
                   shown, lastCheck, dom, parsed, products, files>>

\* accept_cookies: button.click()
ConsentClick ==
    /\ pc = "consent_click"
    /\ BrowserOp
    /\ \E o \in {"ok", "ElementClickInterceptedException"} :
         IF o = "ok" \/ AcceptCookiesCatches(o)
         THEN pc' = "find_more" /\ pagination' = "PAGINATING"
              /\ UNCHANGED <<exc, failedAt, failedCat>>
         ELSE Unwind(o) /\ UNCHANGED pagination
    /\ UNCHANGED <<cat, session, quits, site, more_button, clicked, activations,
                   shown, lastCheck, dom, parsed, products, files>>

\* more_button = driver.find_element(By.CSS_SELECTOR, "button.btn.btn-primary")
FindMore ==
    /\ pc = "find_more"
    /\ BrowserOp
    /\ \E o \in {"found", "NoSuchElementException", "WebDriverException"} :
         IF o = "found"
         THEN /\ more_button' = activations + 1
              /\ pc' = "is_displayed"
              /\ UNCHANGED <<exc, failedAt, failedCat, pagination, lastCheck>>
         ELSE LoopRaise(o) /\ UNCHANGED more_button
    /\ UNCHANGED <<cat, session, quits, site, clicked, activations, shown, dom,
                   parsed, products, files>>

\* if more_button.is_displayed(): ... else: break
IsDisplayedClickingHidden ==
    /\ pc = "is_displayed"
    /\ BrowserOp
    /\ \E o \in {"shown", "hidden"} :
         /\ o = "shown" => shown < MaxClicks
         /\ o = "hidden" => activations < MaxClicks
         /\ shown' = IF o = "shown" THEN shown + 1 ELSE shown
         /\ lastCheck' = o
         /\ pc' = "click_more"
    /\ UNCHANGED <<cat, session, quits, exc, failedAt, failedCat, site, more_button,
                   clicked, activations, pagination, dom, parsed, products, files>>

IsDisplayedLoopingOnHidden ==
    /\ pc = "is_displayed"
    /\ BrowserOp
    /\ \E o \in {"shown", "hidden"} :
         /\ o = "shown" => shown < MaxClicks
         /\ shown' = IF o = "shown" THEN shown + 1 ELSE shown
         /\ lastCheck' = o
         /\ pc' = IF o = "shown" THEN "click_more" ELSE "find_more"
    /\ UNCHANGED <<cat, session, quits, exc, failedAt, failedCat, site, more_button,
                   clicked, activations, pagination, dom, parsed, products, files>>

IsDisplayed ==
    /\ pc = "is_displayed"
    /\ BrowserOp
    /\ \E o \in {"shown", "hidden", "StaleElementReferenceException"} :
         IF o = "shown"
         THEN /\ shown < MaxClicks
              /\ shown' = shown + 1
              /\ lastCheck' = "shown"
              /\ pc' = "click_more"
              /\ UNCHANGED <<exc, failedAt, failedCat, pagination>>
         ELSE IF o = "hidden"
         THEN Break("hidden") /\ UNCHANGED shown
         ELSE LoopRaise(o) /\ UNCHANGED shown
    /\ UNCHANGED <<cat, session, quits, site, more_button, clicked, activations,
                   dom, parsed, products, files>>

\* driver.execute_script("arguments[0].click();", more_button)
ClickMoreThenParse ==
    /\ pc = "click_more"
    /\ BrowserOp
    /\ activations' = activations + 1
    /\ clicked' = more_button
    /\ pc' = "parse"
    /\ UNCHANGED <<cat, session, quits, exc, failedAt, failedCat, site, more_button, shown,
                   lastCheck, pagination, dom, parsed, products, files>>

ClickMore ==
    /\ pc = "click_more"
    /\ BrowserOp
    /\ \E o \in {"ok", "JavascriptException"} :
         IF o = "ok"
         THEN /\ activations' = activations + 1
              /\ clicked' = more_button
              /\ pc' = "stale_wait"
              /\ UNCHANGED <<exc, failedAt, failedCat, pagination, lastCheck>>
         ELSE LoopRaise(o) /\ UNCHANGED <<activations, clicked>>
    /\ UNCHANGED <<cat, session, quits, site, more_button, shown, dom, parsed,
                   products, files>>

\* WebDriverWait(driver, 5).until(EC.staleness_of(more_button))
StaleWait ==
    /\ pc = "stale_wait"
    /\ BrowserOp
    /\ \E o \in {"stale", "TimeoutException"} :
         IF o = "stale"
         THEN pc' = "find_more" /\ UNCHANGED <<exc, failedAt, failedCat, pagination, lastCheck>>
         ELSE LoopRaise(o)
    /\ UNCHANGED <<cat, session, quits, site, more_button, clicked, activations,
                   shown, dom, parsed, products, files>>

\* return parse_products_on_page(driver), and the assignment to `products`
Parse ==
    /\ pc = "parse"
    /\ BrowserOp
    /\ \E page \in PagesOf(site, cat) :
         /\ dom' = page
         /\ LET r == ParseProducts(page) IN
            IF r.exc = "none"
            THEN products' = r.products /\ pc' = "open" /\ UNCHANGED <<exc, failedAt, failedCat>>
            ELSE Unwind(r.exc) /\ UNCHANGED products
    /\ parsed' = [parsed EXCEPT ![cat] = @ + 1]
    /\ UNCHANGED <<cat, session, quits, site, more_button, clicked, activations,
                   shown, lastCheck, pagination, files>>

\* save_to_csv: open(filename, "w", ...) creates the file or truncates it
Open ==
    /\ pc = "open"
    /\ \E o \in {"ok", "OSError"} :
         IF o = "ok"
         THEN /\ files' = [files EXCEPT ![cat] = [exists |-> TRUE, rows |-> <<>>]]
              /\ pc' = "writerow"
              /\ UNCHANGED <<exc, failedAt, failedCat>>
         ELSE Unwind(o) /\ UNCHANGED files
    /\ UNCHANGED <<cat, session, quits, lateOps, site, more_button, clicked,
                   activations, shown, lastCheck, pagination, dom, parsed, products>>

\* save_to_csv: writer.writerow(Product.__annotations__.keys())
WriteRow ==
    /\ pc = "writerow"
    /\ \E o \in {"ok", "OSError"} :
         IF o = "ok"
         THEN /\ files' = [files EXCEPT ![cat].rows = Append(@, Header)]
              /\ pc' = "writerows"
              /\ UNCHANGED <<exc, failedAt, failedCat>>
         ELSE Unwind(o) /\ UNCHANGED files
    /\ UNCHANGED <<cat, session, quits, lateOps, site, more_button, clicked,
                   activations, shown, lastCheck, pagination, dom, parsed, products>>

\* save_to_csv: writer.writerows([astuple(product) for product in products]);
\* a write that fails at row n + 1 leaves the rows before it in the file
WriteRows ==
    /\ pc = "writerows"
    /\ \/ /\ files' = [files EXCEPT ![cat].rows = @ \o Rows(products)]
          /\ pc' = "for"
          /\ UNCHANGED <<exc, failedAt, failedCat>>
       \/ \E n \in 0..(Len(products) - 1) :
            /\ files' = [files EXCEPT ![cat].rows = @ \o SubSeq(Rows(products), 1, n)]
            /\ Unwind("OSError")
    /\ UNCHANGED <<cat, session, quits, lateOps, site, more_button, clicked,
                   activations, shown, lastCheck, pagination, dom, parsed, products>>

\* finally: driver.quit()
Quit ==
    /\ pc = "quit"
    /\ session' = "closed"
    /\ quits' = quits + 1
    /\ pc' = "end"
    /\ UNCHANGED <<cat, lateOps, exc, failedAt, failedCat, site, more_button,
                   clicked, activations, shown, lastCheck, pagination, dom,
                   parsed, products, files>>

Next ==
    \/ SetupDriver
    \/ ForNext
    \/ Get
    \/ ConsentWait
    \/ ConsentClick
    \/ FindMore
    \/ IsDisplayed
    \/ ClickMore
    \/ StaleWait
    \/ Parse
    \/ Open
    \/ WriteRow
    \/ WriteRows
    \/ Quit

Spec == Init /\ [][Next]_vars

\* the thread of control is never suspended: a step that can be taken is taken
FairSpec == Spec /\ WF_vars(Next)

----------------------------------------------------------------------------
(* Vocabulary of the properties *)

\* the c-th CSV exists and starts with the header row
Written(c) ==
    /\ files[c].exists
    /\ Len(files[c].rows) >= 1
    /\ files[c].rows[1] = Header

\* the positions inside accept_cookies and inside the "More" loop
ConsentPositions == {"consent_wait", "consent_click"}
LoopPositions == {"find_more", "is_displayed", "click_more", "stale_wait"}
SavePositions == {"writerow", "writerows"}

\* the run is over, or only the finally clause is left
Aborted == pc \in {"quit", "end"} /\ exc # "none"

\* the CSV row expected for each well-formed card of the model
ExpectedRow(card) ==
    CASE card = cardA -> <<"A", "about A", "10.0", "4", "10">>
      [] card = cardB -> <<"B", "about B", "20.5", "3", "2">>
      [] card = cardC -> <<"C", "", "5.0", "5", "0">>

\* a price remainder as a reader takes it: digits, optionally grouped in
\* thousands by "," (groups of three after the first), optionally a fraction
IntegerPart(r) ==
    LET dots == {i \in 1..Len(r) : r[i] = "."} IN
    IF dots = {} THEN r
    ELSE SubSeq(r, 1, (CHOOSE i \in dots : \A j \in dots : i <= j) - 1)

WellGrouped(ip) ==
    \/ \A j \in 1..Len(ip) : ip[j] # ","
    \/ /\ Len(ip) > 0 /\ ip[1] # ","
       /\ \A j \in 1..Len(ip) : (ip[j] = ",") <=> ((Len(ip) - j + 1) % 4 = 0)

Ungrouped(r) == SelectSeq(r, LAMBDA c : c # ",")

IsMoney(r) ==
    /\ WellGrouped(IntegerPart(r))
    /\ \A j \in (Len(IntegerPart(r)) + 1)..Len(r) : r[j] # ","
    /\ ParseFloat(Ungrouped(r)).ok

MoneyValue(r) == ParseFloat(Ungrouped(r)).val

----------------------------------------------------------------------------
(* C1: once the session is open, driver.quit() runs exactly once on every   *)
(* exit path of get_all_products (normal completion, or a failure at any    *)
(* step of any category), and no browser operation follows the close.       *)
C1_SessionClosedOnce ==
    /\ quits <= 1
    /\ (pc = "end" /\ session # "none") => (session = "closed" /\ quits = 1)
    /\ session = "closed" => pc = "end"
    /\ ~lateOps

C1_Witness ==
    /\ pc = "end" /\ session = "closed" /\ quits = 1
    /\ exc = "ValueError" /\ failedAt = "parse" /\ failedCat = 3

(* C2 as stated: when category k fails midway, categories 1..k-1 have their *)
(* CSV, no CSV exists for k..6, nothing after k is visited and the session  *)
(* is closed once.                                                          *)
C2_NoCsvFromFailedCategoryOn ==
    (pc = "end" /\ exc # "none" /\ failedCat >= 1) =>
        /\ \A c \in 1..(failedCat - 1) : Written(c)
        /\ \A c \in failedCat..NumCategories : files[c] = NoFile
        /\ cat = failedCat
        /\ \A c \in (failedCat + 1)..NumCategories : parsed[c] = 0
        /\ session = "closed" /\ quits = 1

(* C2 amended: as stated for categories 1..k-1 and k+1..6; category k has   *)
(* no CSV when the failure came before save_to_csv opened the file, and     *)
(* when the failure came while writing, its CSV is left behind holding a    *)
(* proper prefix of the header and the rows.                                *)
C2_PartialCsvOnlyFromFailedWrite ==
    (pc = "end" /\ exc # "none" /\ failedCat >= 1) =>
        /\ \A c \in 1..(failedCat - 1) : Written(c)
        /\ \A c \in (failedCat + 1)..NumCategories :
             files[c] = NoFile /\ parsed[c] = 0
        /\ cat = failedCat
        /\ session = "closed" /\ quits = 1
        /\ failedAt \notin SavePositions => files[failedCat] = NoFile
        /\ failedAt \in SavePositions =>
             LET all == <<Header>> \o Rows(products)
                 got == files[failedCat].rows
             IN  /\ files[failedCat].exists
                 /\ Len(got) < Len(all)
                 /\ got = SubSeq(all, 1, Len(got))

C2_Witness ==
    /\ pc = "end" /\ failedCat = 3 /\ failedAt = "writerows"
    /\ Written(1) /\ Written(2)
    /\ Len(files[3].rows) = 2
    /\ files[4] = NoFile

(* C3: when pagination is DONE, the number of activations equals the number *)
(* of lookups that found the control displayed; in particular a control     *)
(* found hidden on the first lookup ends pagination with zero activations.  *)
C3_ActivationsEqualDisplayedChecks ==
    pagination = "DONE" =>
        /\ lastCheck \in {"absent", "hidden"}
        /\ activations = shown
        /\ (shown = 0 /\ lastCheck = "hidden") => activations = 0

C3_Witness ==
    /\ pagination = "DONE" /\ lastCheck = "absent"
    /\ shown = 2 /\ activations = 2

(* C4 as stated: accept_cookies never propagates a failure: neither the     *)
(* bound of the wait elapsing nor the activation of the control failing     *)
(* leaves the function as an exception.                                     *)
C4_ConsentNeverPropagates ==
    /\ ~(failedAt = "consent_wait" /\ exc = "TimeoutException")
    /\ failedAt # "consent_click"

(* C5: a timeout of the staleness wait is not caught by the "More" loop: it *)
(* aborts the run, with no extraction and no CSV for that category, no      *)
(* later category processed and the session closed; the only timeout that   *)
(* is tolerated is the one of the consent wait.                             *)
C5_StalenessTimeoutIsFatal ==
    /\ [][(pc = "stale_wait" /\ pc' # "find_more") =>
            /\ pc' = "quit"
            /\ exc' = "TimeoutException"
            /\ failedAt' = "stale_wait"]_vars
    /\ [][pc = "consent_wait" => exc' # "TimeoutException"]_vars
    /\ [](exc = "TimeoutException" => failedAt = "stale_wait")
    /\ [](failedAt = "stale_wait" =>
            /\ Aborted
            /\ cat = failedCat
            /\ parsed[cat] = 0
            /\ \A c \in cat..NumCategories : files[c] = NoFile
            /\ pc = "end" => (session = "closed" /\ quits = 1))

C5_Witness ==
    /\ pc = "end" /\ exc = "TimeoutException" /\ failedAt = "stale_wait"
    /\ failedCat = 2 /\ activations = 2 /\ Written(1)

(* C6: when save_to_csv has finished for a category whose page held only    *)
(* well-formed cards, its CSV is the header row followed by one row per     *)
(* card, in page order, holding that card's five values.                    *)
C6_CsvHoldsCardsInOrder ==
    (pc = "for" /\ cat >= 1 /\ \A i \in 1..Len(dom) : dom[i] \in GoodCards) =>
        files[cat] = [exists |-> TRUE,
                      rows |-> <<Header>> \o [i \in 1..Len(dom) |-> ExpectedRow(dom[i])]]

C6_Witness ==
    /\ pc = "for" /\ cat = 2
    /\ dom = <<cardA, cardB, cardC>>
    /\ Len(files[2].rows) = 4
    /\ files[2].rows[3] = <<"B", "about B", "20.5", "3", "2">>

(* C7 as stated: a price text whose remainder after the removal of the      *)
(* currency symbol is a number, thousands separators included, parses to    *)
(* that number; any other remainder raises a parse error.                   *)
C7_PriceParsesToItsValue ==
    (site.mode = "prices" /\ cat = site.rich /\ parsed[cat] = 1) =>
        LET r == StripDollar(dom[1].price) IN
        IF IsMoney(r)
        THEN /\ exc = "none"
             /\ Len(products) = 1
             /\ products[1].price = MoneyValue(r)
        ELSE exc = "ValueError" /\ failedAt = "parse"

(* C8: when the extraction of a field of some card of the page fails, the   *)
(* exception leaves parse_products_on_page: the caller receives no records  *)
(* (those of the cards before the failing one included) and no CSV is       *)
(* written for the category.                                                *)
C8_NoPartialRecords ==
    /\ [][(pc = "parse" /\ \E i \in 1..Len(dom') : dom'[i] \in BadCards) =>
            /\ products' = products
            /\ pc' = "quit"
            /\ exc' \in {"NoSuchElementException", "ValueError", "IndexError"}
            /\ failedAt' = "parse"]_vars
    /\ [](failedAt = "parse" =>
            /\ Aborted
            /\ files[failedCat] = NoFile)

C8_Witness ==
    /\ pc = "end" /\ failedAt = "parse" /\ exc = "IndexError"
    /\ Len(dom) = 2 /\ dom[1] \in GoodCards /\ dom[2] \in BadCards
    /\ products = <<>>
    /\ files[failedCat] = NoFile

(* C9: parse_products_on_page runs at most once per category, only when     *)
(* pagination is DONE, never while the "More" loop is still running, and    *)
(* not at all for a category whose consent handling or pagination failed.   *)
C9_ExtractionOnceAfterPagination ==
    /\ \A c \in Categories : parsed[c] <= 1
    /\ \A c \in Categories : c > cat => parsed[c] = 0
    /\ (cat >= 1 /\ parsed[cat] = 1) => pagination = "DONE"
    /\ pc \in ConsentPositions \cup LoopPositions => parsed[cat] = 0
    /\ failedAt \in ConsentPositions \cup LoopPositions => parsed[failedCat] = 0

C9_Witness ==
    /\ cat = 2 /\ parsed[1] = 1 /\ parsed[2] = 1
    /\ pagination = "DONE" /\ activations = 2

(* C10: the run always ends, with all six CSVs written or a failure         *)
(* surfaced, and with the session closed; every activation is followed by   *)
(* one staleness wait on the control that was activated.                    *)
C10_RunTerminates ==
    /\ <>(pc = "end")
    /\ [](pc = "end" =>
            /\ session = "closed" \/ failedAt = "setup"
            /\ exc # "none" \/ \A c \in Categories : Written(c))
    /\ [](pc = "click_more" => shown = activations + 1)
    /\ [](pc = "stale_wait" => (shown = activations /\ clicked = more_button))
    /\ [][activations' # activations =>
            \/ activations' = 0
            \/ /\ activations' = activations + 1
               /\ pc = "click_more" /\ pc' = "stale_wait"]_vars
    /\ [][pc = "stale_wait" => pc' \in {"find_more", "quit"}]_vars

C10_Witness ==
    /\ pc = "end" /\ exc = "none" /\ session = "closed"
    /\ \A c \in Categories : Written(c)
    /\ activations = 2

====
